---- MODULE Spec2Model ----
(***************************************************************************)
(* State-machine model of SpotifyManager.py (class SpotifyPodcastFetcher   *)
(* and the __main__ script).                                               *)
(*                                                                         *)
(* The synchronous start-up (load_client_credentials, get_access_token,    *)
(* is_token_valid, request_new_token, update_credentials_file,             *)
(* start_librespot) is modelled by the program counter pc, split at the    *)
(* remote calls, whose responses are inputs.  The asyncio part             *)
(* (play_randomly, play_episode) is modelled on the event loop: a FIFO     *)
(* queue of ready callbacks, a counting semaphore with a FIFO of waiters,  *)
(* timers for asyncio.sleep, and asyncio.gather's completion callback.     *)
(* requests.put is a blocking call: while it is outstanding the event      *)
(* loop runs nothing else (variable current).                              *)
(***************************************************************************)
EXTENDS Integers, Sequences, FiniteSets, Bags, TLC

(* ------------------------------ bounds -------------------------------- *)
MaxEpisodes == 2
MaxConcurrent == 2
MaxCycles == 2

(* ------------------------- program constants -------------------------- *)
HTTP_OK == 200
HTTP_NO_CONTENT == 204

(* ------------------------------ values -------------------------------- *)
\* A key that is absent from the JSON document (dict.get returns None).
Absent == "<absent>"
\* Episode ids are opaque strings: the lists considered are the lists of
\* distinct ids of each length, and lists that repeat an id.
AllEpisodeIds == <<"a", "b", "c", "d", "e", "f">>
EpisodeIds == {AllEpisodeIds[i] : i \in 1..Len(AllEpisodeIds)}
CachedTokens == {Absent, "", "tokA"}
NewTokens == {"tokB"}
EnabledValues == {Absent, "false", "true"}

\* Variant: `is not None` in place of truthiness.
PyNotNone(v) == v # Absent

\* Python truthiness of a JSON value read with dict.get.
PyTruthy(v) == v \notin {Absent, "", "false"}

EpisodeLists ==
    {SubSeq(AllEpisodeIds, 1, n) : n \in 0..MaxEpisodes}
        \cup {<<"a", "a">>, <<"a", "a", "b">>}

Documents ==
    [client_id : {Absent, "cid"}, client_secret : {Absent, "sec"},
     podcast_id : {Absent, "pod"}, device_id : {Absent, "dev"},
     episode_ids : EpisodeLists,
     access_token : CachedTokens, enabled : EnabledValues]

\* Responses of the remote service.  net = FALSE is a network failure
\* (requests raises, there is no status); json tells whether the body
\* parses as JSON (response.json() raises otherwise).
Response(n, s, j) == [net |-> n, status |-> s, json |-> j]
NetworkFailure == Response(FALSE, 0, FALSE)
\* No call has been made.
NoResponse == Response(FALSE, -1, FALSE)
ProbeResponses == {Response(TRUE, HTTP_OK, TRUE), Response(TRUE, 401, TRUE), NetworkFailure}
ExchangeResponses == {Response(TRUE, HTTP_OK, TRUE), Response(TRUE, 400, TRUE), NetworkFailure}
PlayResponses == {Response(TRUE, HTTP_NO_CONTENT, FALSE), Response(TRUE, 403, TRUE),
                  Response(TRUE, 502, FALSE), NetworkFailure}

NoTask == <<0, 0>>

\* Condition of the file: a JSON object with a "spotify" object ("ok"), no
\* file, not JSON, not readable by the process, or JSON of another shape
\* (such as a list).
FileStates == {"ok", "missing", "malformed", "unreadable", "shape"}

\* The exception that open / json.load / .get raise on the file, "" if none.
FileError(f) ==
    CASE f = "ok" -> ""
      [] f = "missing" -> "FileNotFoundError"
      [] f = "malformed" -> "JSONDecodeError"
      [] f = "unreadable" -> "PermissionError"
      [] f = "shape" -> "AttributeError"

\* except (FileNotFoundError, json.JSONDecodeError)
FileErrorCaught(e) == e \in {"FileNotFoundError", "JSONDecodeError"}

DisabledMessage == "Playback is disabled. Exiting."
StoppedMessage == "\nPlayback stopped."

VARIABLES
    doc,            \* the credential document (credentials.json, section "spotify")
    pc,             \* position of the main script
    err,            \* the exception that ended the script, "" if none
    self,           \* fields set by __init__ (client_id, ..., episode_ids, access_token, headers)
    cached,         \* the access_token that get_access_token read from the document
    resp,           \* the responses received by is_token_valid and request_new_token
    calls,          \* number of probe / exchange calls and of document writes made
    librespot,      \* start_librespot has run
    max_concurrent, \* argument of play_randomly
    sched,          \* state of the play_randomly coroutine
    cycle,          \* number of cycles begun
    semaphore,      \* asyncio.Semaphore: value and FIFO of waiters
    tasks,          \* the play_episode tasks whose completion gather has not consumed yet
    ready,          \* the event loop's FIFO of ready callbacks
    current,        \* task blocked in requests.put, NoTask if none
    gather,         \* the future of asyncio.gather
    sent,           \* the play commands sent in the current cycle, in order
    file,           \* condition of credentials.json on disk
    printed,        \* the shutdown message printed, "" if none
    sigint          \* a SIGINT has been delivered to the scheduler

vars == <<doc, pc, err, self, cached, resp, calls, librespot, max_concurrent,
          sched, cycle, semaphore, tasks, ready, current, gather, sent,
          file, printed, sigint>>

initVars == <<pc, err, self, cached, resp, calls, librespot>>
loopVars == <<sched, cycle, semaphore, tasks, ready, current, gather, sent>>
outVars == <<file, printed, sigint>>

\* What a reader finds in a file that holds no "spotify" section.
NoDocument == [client_id |-> Absent, client_secret |-> Absent, podcast_id |-> Absent,
               device_id |-> Absent, episode_ids |-> <<>>, access_token |-> Absent,
               enabled |-> Absent]

NoSelf == [client_id |-> Absent, client_secret |-> Absent, podcast_id |-> Absent,
           device_id |-> Absent, episode_ids |-> <<>>, access_token |-> Absent,
           headers |-> Absent]

Init ==
    /\ doc \in Documents
    /\ pc = "load"
    /\ err = ""
    /\ self = NoSelf
    /\ cached = Absent
    /\ resp = [probe |-> NoResponse, exchange |-> NoResponse]
    /\ calls = [probe |-> 0, exchange |-> 0, write |-> 0]
    /\ librespot = FALSE
    /\ max_concurrent \in 0..MaxConcurrent
    /\ sched = "idle"
    /\ cycle = 0
    /\ semaphore = [value |-> 0, waiters |-> <<>>]
    /\ tasks = <<>>
    /\ ready = <<>>
    /\ current = NoTask
    /\ gather = [cycle |-> 0, nfuts |-> 0, nfinished |-> 0, done |-> FALSE, exc |-> ""]
    /\ sent = <<>>
    /\ file \in FileStates
    /\ file # "ok" => doc = NoDocument
    /\ printed = ""
    /\ sigint = FALSE

(* --------------------------- initialization --------------------------- *)

\* Variant: the device id is not required.
RequiredButDevice(d) ==
    /\ PyTruthy(d.client_id) /\ PyTruthy(d.client_secret) /\ PyTruthy(d.podcast_id)
    /\ Len(d.episode_ids) > 0

\* load_client_credentials: all five fields must be truthy.
RequiredPresent(d) ==
    /\ PyTruthy(d.client_id) /\ PyTruthy(d.client_secret) /\ PyTruthy(d.podcast_id)
    /\ Len(d.episode_ids) > 0 /\ PyTruthy(d.device_id)

load_client_credentials ==
    /\ pc = "load"
    /\ IF FileError(file) # ""
       THEN /\ pc' = "failed"
            /\ err' = IF FileErrorCaught(FileError(file)) THEN "FileNotFoundError"
                      ELSE FileError(file)
            /\ self' = self
       ELSE IF RequiredPresent(doc)
       THEN /\ self' = [self EXCEPT !.client_id = doc.client_id,
                                    !.client_secret = doc.client_secret,
                                    !.podcast_id = doc.podcast_id,
                                    !.episode_ids = doc.episode_ids,
                                    !.device_id = doc.device_id]
            /\ pc' = "get_access_token"
            /\ err' = err
       ELSE /\ pc' = "failed"
            /\ err' = "ValueError"
            /\ self' = self
    /\ UNCHANGED <<doc, cached, resp, calls, librespot, max_concurrent>>
    /\ UNCHANGED loopVars
    /\ UNCHANGED outVars

\* Variant: the Authorization header is built from the token read from the
\* document, not from the one get_access_token returned.
InitReturnCachedHeader(token) ==
    /\ self' = [self EXCEPT !.access_token = token, !.headers = cached]
    /\ pc' = "ready"

\* __init__ lines 17-21: the token returned by get_access_token becomes
\* self.access_token and the Authorization header.
InitReturn(token) ==
    /\ self' = [self EXCEPT !.access_token = token, !.headers = token]
    /\ pc' = "ready"

\* get_access_token up to its first remote call: read the cached token; a
\* truthy one is probed (is_token_valid), otherwise request_new_token.
get_access_token ==
    /\ pc = "get_access_token"
    /\ cached' = doc.access_token
    /\ IF PyTruthy(doc.access_token)
       THEN /\ pc' = "probe"
            /\ calls' = [calls EXCEPT !.probe = @ + 1]
       ELSE /\ pc' = "exchange"
            /\ calls' = [calls EXCEPT !.exchange = @ + 1]
    /\ UNCHANGED <<doc, err, self, resp, librespot, max_concurrent>>
    /\ UNCHANGED loopVars
    /\ UNCHANGED outVars

\* Variant: the probe's status is ignored and the token always refreshed.
TokenNeverValid(r) == FALSE

\* is_token_valid: the result of the probe, given its response.  A network
\* failure has no result: requests.get raises.
TokenValid(r) == r.status = HTTP_OK

is_token_valid(r) ==
    /\ pc = "probe"
    /\ resp' = [resp EXCEPT !.probe = r]
    /\ IF ~r.net
       THEN /\ pc' = "failed"
            /\ err' = "ConnectionError"
            /\ UNCHANGED <<self, calls>>
       ELSE IF TokenValid(r)
       THEN /\ InitReturn(cached)
            /\ UNCHANGED <<err, calls>>
       ELSE /\ pc' = "exchange"
            /\ calls' = [calls EXCEPT !.exchange = @ + 1]
            /\ UNCHANGED <<err, self>>
    /\ UNCHANGED <<doc, cached, librespot, max_concurrent>>
    /\ UNCHANGED loopVars
    /\ UNCHANGED outVars

\* The keys of the "spotify" section, in the order of the file.
DocKeys == <<"client_id", "client_secret", "podcast_id", "episode_ids", "device_id",
             "access_token", "enabled">>

\* What dict.get gives for a key that is not in the section.
DefaultOf(k) == IF k = "episode_ids" THEN <<>> ELSE Absent

\* json.dump: the members of the section, as (key, value) pairs in order;
\* a key that is not in the dict is not written.
JsonDump(d) ==
    LET present == SelectSeq(DocKeys,
                     LAMBDA k : IF k = "episode_ids" THEN TRUE ELSE d[k] # Absent)
    IN [i \in 1..Len(present) |-> <<present[i], d[present[i]]>>]

\* json.load followed by dict.get: the value of the last member with the
\* key, the default if there is none.
JsonLoad(text) ==
    [k \in {DocKeys[i] : i \in 1..Len(DocKeys)} |->
        LET at == {i \in 1..Len(text) : text[i][1] = k}
        IN IF at = {} THEN DefaultOf(k)
           ELSE text[CHOOSE i \in at : \A j \in at : j <= i][2]]

\* Variant: the new token is not written back.
update_nothing(d, token) == d

\* Variant: the document is rebuilt from an empty dict (the except branch
\* taken always), so only the token is written.
update_from_empty(d, token) ==
    JsonLoad(JsonDump([k \in DOMAIN d |-> IF k = "access_token" THEN token ELSE DefaultOf(k)]))

\* update_credentials_file: re-read the document, set access_token, write.
\* The result is the document as a fresh load reads it back.
update_credentials_file(d, token) ==
    JsonLoad(JsonDump([d EXCEPT !.access_token = token]))

\* Variant: the status of the exchange is not checked.
ExchangeAlwaysAccepted(r) == TRUE

\* request_new_token, line 88: the exchange succeeded.
ExchangeAccepted(r) == r.status = HTTP_OK

\* request_new_token from the response of the POST on.  Line 89 raises in
\* every case (formatting its message may itself raise).
request_new_token(r, token) ==
    /\ pc = "exchange"
    /\ resp' = [resp EXCEPT !.exchange = r]
    /\ IF ~r.net
       THEN /\ pc' = "failed"
            /\ err' = "ConnectionError"
            /\ UNCHANGED <<doc, self, calls>>
       ELSE IF ~ExchangeAccepted(r)
       THEN /\ pc' = "failed"
            /\ err' = "AuthError"
            /\ UNCHANGED <<doc, self, calls>>
       ELSE /\ doc' = update_credentials_file(doc, token)
            /\ calls' = [calls EXCEPT !.write = @ + 1]
            /\ InitReturn(token)
            /\ err' = err
    /\ UNCHANGED <<cached, librespot, max_concurrent>>
    /\ UNCHANGED loopVars
    /\ UNCHANGED outVars

\* start_librespot (main script, after print_episode_list).
start_librespot ==
    /\ pc = "ready"
    /\ librespot' = TRUE
    /\ pc' = "run"
    /\ UNCHANGED <<doc, err, self, cached, resp, calls, max_concurrent>>
    /\ UNCHANGED loopVars
    /\ UNCHANGED outVars

\* The program is about to call is_enabled: asyncio.run is next, or
\* play_randomly is the next callback of the event loop.
AboutToReadEnabled ==
    \/ pc = "run"
    \/ current = <<0, 0>> /\ ready # <<>> /\ Head(ready).kind = "main"

\* Another process edits the kill-switch in the document.  The program
\* looks at the key only in is_enabled, so an edit made at any time since
\* the previous look is modelled as made just before the next one.
EnvSetEnabled(v) ==
    /\ AboutToReadEnabled
    /\ file = "ok"
    /\ doc.enabled # v
    /\ doc' = [doc EXCEPT !.enabled = v]
    /\ UNCHANGED <<max_concurrent>>
    /\ UNCHANGED initVars
    /\ UNCHANGED loopVars
    /\ UNCHANGED outVars

\* Another process removes, protects or overwrites the file.  As for the
\* kill-switch, the change is modelled as made just before the next read
\* (play_randomly is about to go on to its next iteration).
EnvSetFile(f) ==
    /\ AboutToReadEnabled /\ gather.exc = ""
    /\ file = "ok" /\ f # "ok"
    /\ file' = f
    /\ UNCHANGED <<doc, max_concurrent, printed, sigint>>
    /\ UNCHANGED initVars
    /\ UNCHANGED loopVars

(* ------------------------------ event loop ---------------------------- *)

Handle(k, id) == [kind |-> k, id |-> id]
MainHandle == Handle("main", NoTask)

\* Variant: the kill-switch defaults to True when the key is absent.
is_enabled_default_true(d) == IF d.enabled = Absent THEN "true" ELSE d.enabled

\* is_enabled: the value of "enabled", False when the key is absent.
is_enabled(d) == IF d.enabled = Absent THEN "false" ELSE d.enabled

\* Variant: sampling with replacement (random.choices) in place of a shuffle.
SampleWithReplacement(s) == [1..Len(s) -> {s[i] : i \in 1..Len(s)}]

\* random.shuffle: any reordering of the list.
Shuffle(s) ==
    {[i \in 1..Len(s) |-> s[p[i]]] : p \in Permutations(1..Len(s))}

\* Variant: a gate that admits one task too many.
LockedOffByOne(s) == s.value < 0

\* asyncio.Semaphore.locked
Locked(s) == s.value = 0 \/ Len(s.waiters) > 0

RemoveWaiter(w, id) == SelectSeq(w, LAMBDA x : x # id)

\* Variant: the most recent waiter is served first.
LastWaiter(s, ts) ==
    LET idx == {i \in 1..Len(s.waiters) : ts[s.waiters[i]].st = "waiting"}
    IN IF idx = {} THEN 0 ELSE CHOOSE i \in idx : \A j \in idx : i >= j

\* Index of the first waiter whose future is not done, 0 if none.
NextWaiter(s, ts) ==
    LET idx == {i \in 1..Len(s.waiters) : ts[s.waiters[i]].st = "waiting"}
    IN IF idx = {} THEN 0 ELSE CHOOSE i \in idx : \A j \in idx : i <= j

\* Variant: a release that never gives the slot back to the counter.
ReleaseLeaks(s, ts) == s.value

\* asyncio.Semaphore.release: the freed slot is handed to the first waiter.
ReleaseValue(s, ts) == IF NextWaiter(s, ts) = 0 THEN s.value + 1 ELSE s.value
ReleaseTasks(s, ts) ==
    IF NextWaiter(s, ts) = 0 THEN ts
    ELSE [ts EXCEPT ![s.waiters[NextWaiter(s, ts)]].st = "woken"]
ReleaseReady(s, ts) ==
    IF NextWaiter(s, ts) = 0 THEN <<>>
    ELSE <<Handle("task", s.waiters[NextWaiter(s, ts)])>>

\* Variant: the loop goes on as soon as the first task has completed.
GatherFirstCompleted(g) == g.nfinished >= 1

\* The condition under which gather's callback completes the outer future.
GatherComplete(g) == g.nfinished = g.nfuts

\* except KeyboardInterrupt around asyncio.run (main script).
Caught(exc) == exc = "KeyboardInterrupt"

\* An exception leaves play_randomly: asyncio.run cancels the tasks that
\* remain and re-raises; the script prints its message if it catches the
\* exception and dies with the traceback otherwise.
LeaveRun(exc) ==
    /\ IF Caught(exc)
       THEN /\ sched' = "stopped"
            /\ pc' = "exit"
            /\ printed' = StoppedMessage
            /\ err' = err
       ELSE /\ sched' = "crashed"
            /\ pc' = "failed"
            /\ printed' = printed
            /\ err' = exc
    /\ tasks' = [id \in DOMAIN tasks |->
                   IF tasks[id].st = "done" THEN tasks[id]
                   ELSE [tasks[id] EXCEPT !.st = "cancelled"]]
    /\ ready' = <<>>

\* One iteration of the while loop of play_randomly, up to `await gather`:
\* enabled check, shuffle, one task per episode.  rest is the remainder of
\* the ready queue.
LoopHead(rest) ==
    IF FileError(file) # "" /\ ~FileErrorCaught(FileError(file))
    THEN /\ LeaveRun(FileError(file))
         /\ UNCHANGED <<self, cycle, gather, sent>>
    ELSE IF FileError(file) # "" \/ ~PyTruthy(is_enabled(doc))
    THEN /\ sched' = "stopped"
         /\ pc' = "exit"
         /\ printed' = DisabledMessage
         /\ ready' = rest
         /\ UNCHANGED <<err, self, cycle, tasks, gather, sent>>
    ELSE /\ cycle < MaxCycles
         /\ \E order \in Shuffle(self.episode_ids) :
              LET c == cycle + 1
                  pending == DOMAIN tasks
                  new == {<<c, i>> : i \in 1..Len(order)}
              IN /\ self' = [self EXCEPT !.episode_ids = order]
                 /\ cycle' = c
                 /\ tasks' = [id \in pending \cup new |->
                                IF id \in new
                                THEN [ep |-> order[id[2]], st |-> "new", res |-> "none"]
                                ELSE tasks[id]]
                 /\ ready' = rest \o [i \in 1..Len(order) |-> Handle("task", <<c, i>>)]
                 /\ gather' = [cycle |-> c, nfuts |-> Len(order), nfinished |-> 0,
                               done |-> FALSE, exc |-> ""]
                 /\ sent' = <<>>
         /\ sched' = "gather"
         /\ pc' = "asyncio_run"
         /\ UNCHANGED <<err, printed>>

\* asyncio.run(showman.play_randomly()): the coroutine runs to its first await.
play_randomly ==
    /\ pc = "run"
    /\ semaphore' = [value |-> max_concurrent, waiters |-> <<>>]
    /\ LoopHead(<<>>)
    /\ UNCHANGED <<doc, cached, resp, calls, librespot, max_concurrent, current,
                   file, sigint>>

\* play_episode, lines 148-154: build the request and call requests.put,
\* which blocks the event loop until the response arrives.
SendPut(id) ==
    /\ current' = id
    /\ sent' = Append(sent, [ep |-> tasks[id].ep, cycle |-> id[1], token |-> self.headers])

\* play_episode up to requests.put: a task runs from the ready queue; a new
\* one enters `async with semaphore`, a woken one has been given its slot.
play_episode_start ==
    /\ current = NoTask /\ ready # <<>> /\ Head(ready).kind = "task"
    /\ LET id == Head(ready).id IN
       /\ tasks[id].st \in {"new", "woken"}
       /\ IF tasks[id].st = "new" /\ Locked(semaphore)
          THEN /\ semaphore' = [semaphore EXCEPT !.waiters = Append(@, id)]
               /\ tasks' = [tasks EXCEPT ![id].st = "waiting"]
               /\ UNCHANGED <<current, sent>>
          ELSE /\ semaphore' = IF tasks[id].st = "new"
                               THEN [semaphore EXCEPT !.value = @ - 1]
                               ELSE [semaphore EXCEPT !.waiters = RemoveWaiter(@, id)]
               /\ tasks' = [tasks EXCEPT ![id].st = "http"]
               /\ SendPut(id)
    /\ ready' = Tail(ready)
    /\ UNCHANGED <<doc, max_concurrent, sched, cycle, gather>>
    /\ UNCHANGED initVars
    /\ UNCHANGED outVars

\* What play_episode does with the response: "played" goes on to
\* asyncio.sleep, "failed" prints the failure; otherwise an exception leaves
\* the coroutine: requests.put raised, or response.json() raised on a body
\* that is not JSON.
PlayResult(r) ==
    IF ~r.net THEN "ConnectionError"
    ELSE IF r.status = HTTP_NO_CONTENT THEN "played"
    ELSE IF r.json THEN "failed"
    ELSE "JSONDecodeError"

Raised(res) == res \in {"ConnectionError", "JSONDecodeError"}

\* The task ends: the slot is released on leaving `async with`, and the
\* task's completion schedules gather's callback.
Finish(id, res) ==
    LET ts == [tasks EXCEPT ![id].st = "done", ![id].res = res] IN
    /\ semaphore' = [semaphore EXCEPT !.value = ReleaseValue(semaphore, ts)]
    /\ tasks' = ReleaseTasks(semaphore, ts)
    /\ ready' = (IF ready # <<>> /\ Head(ready) = Handle("task", id) THEN Tail(ready) ELSE ready)
                   \o ReleaseReady(semaphore, ts) \o <<Handle("cb", id)>>

\* play_episode, lines 154-160: the response of requests.put.
play_episode_response(r) ==
    /\ current # NoTask /\ ~sigint
    /\ current' = NoTask
    /\ IF PlayResult(r) = "played"
       THEN /\ tasks' = [tasks EXCEPT ![current].st = "sleeping"]
            /\ UNCHANGED <<semaphore, ready>>
       ELSE Finish(current, PlayResult(r))
    /\ UNCHANGED <<doc, max_concurrent, sched, cycle, gather, sent>>
    /\ UNCHANGED initVars
    /\ UNCHANGED outVars

\* The timer of asyncio.sleep(5) expires: the task becomes ready.  All
\* timers run 5 seconds and are set one after the other, in the order of
\* the blocking PUTs (the order of the tasks), so they expire in that order.
SleepExpires(id) ==
    /\ current = NoTask
    /\ id \in DOMAIN tasks /\ tasks[id].st = "sleeping"
    /\ \A other \in DOMAIN tasks : tasks[other].st = "sleeping" => id[2] <= other[2]
    /\ tasks' = [tasks EXCEPT ![id].st = "timer"]
    /\ ready' = Append(ready, Handle("task", id))
    /\ UNCHANGED <<doc, max_concurrent, sched, cycle, semaphore, current, gather, sent>>
    /\ UNCHANGED initVars
    /\ UNCHANGED outVars

\* play_episode, line 158 and the end of `async with`.
play_episode_finish ==
    /\ current = NoTask /\ ready # <<>> /\ Head(ready).kind = "task"
    /\ tasks[Head(ready).id].st = "timer"
    /\ Finish(Head(ready).id, "played")
    /\ UNCHANGED <<doc, max_concurrent, sched, cycle, current, gather, sent>>
    /\ UNCHANGED initVars
    /\ UNCHANGED outVars

\* The callback asyncio.gather attaches to each task.
gather_callback ==
    /\ current = NoTask /\ ready # <<>> /\ Head(ready).kind = "cb"
    /\ LET id == Head(ready).id
           g == [gather EXCEPT !.nfinished = @ + 1]
       IN IF id[1] # gather.cycle \/ gather.done
          THEN /\ ready' = Tail(ready)
               /\ gather' = gather
          ELSE IF Raised(tasks[id].res)
          THEN /\ gather' = [g EXCEPT !.done = TRUE, !.exc = tasks[id].res]
               /\ ready' = Append(Tail(ready), MainHandle)
          ELSE IF GatherComplete(g)
          THEN /\ gather' = [g EXCEPT !.done = TRUE]
               /\ ready' = Append(Tail(ready), MainHandle)
          ELSE /\ gather' = g
               /\ ready' = Tail(ready)
    /\ tasks' = [id \in DOMAIN tasks \ {Head(ready).id} |-> tasks[id]]
    /\ UNCHANGED <<doc, max_concurrent, sched, cycle, semaphore, current, sent>>
    /\ UNCHANGED initVars
    /\ UNCHANGED outVars

\* play_randomly resumes from `await asyncio.gather(*tasks)`: the next loop
\* iteration, or the exception of a task, which leaves asyncio.run (the
\* remaining tasks are cancelled) and the script.
play_randomly_resume ==
    /\ current = NoTask /\ ready # <<>> /\ Head(ready).kind = "main"
    /\ IF gather.exc # ""
       THEN /\ LeaveRun(gather.exc)
            /\ UNCHANGED <<self, cycle, gather, sent>>
       ELSE LoopHead(Tail(ready))
    /\ UNCHANGED <<doc, cached, resp, calls, librespot, max_concurrent,
                   semaphore, current, file, sigint>>

\* The process is waiting: blocked in requests.put, or idle in the event
\* loop's select with nothing ready.  Callbacks take no time, so a signal
\* is modelled as arriving while the process waits.
Waiting == current # NoTask \/ ready = <<>>

\* SIGINT while asyncio.run is running: the loop is idle, or the signal is
\* raised as KeyboardInterrupt inside the blocked requests.put.  The tasks
\* are cancelled and KeyboardInterrupt leaves asyncio.run.
Interrupt ==
    /\ pc = "asyncio_run" /\ ~sigint /\ Waiting
    /\ sigint' = TRUE
    /\ LeaveRun("KeyboardInterrupt")
    /\ current' = NoTask
    /\ UNCHANGED <<doc, self, cached, resp, calls, librespot, max_concurrent,
                   cycle, semaphore, gather, sent, file>>

\* SIGINT while requests.put blocks the loop, under the handler that
\* asyncio.run installs (Python 3.11 on): the handler requests the
\* cancellation of the main task and returns, and the call goes on.
InterruptDeferred ==
    /\ pc = "asyncio_run" /\ ~sigint /\ current # NoTask
    /\ sigint' = TRUE
    /\ UNCHANGED <<doc, max_concurrent, file, printed>>
    /\ UNCHANGED initVars
    /\ UNCHANGED loopVars

\* The response of the requests.put that a SIGINT found outstanding.  An
\* exception of the task completes gather with that exception, which
\* leaves asyncio.run in place of the cancellation; otherwise the task is
\* cancelled at its next await or ends, gather is cancelled and
\* asyncio.run raises KeyboardInterrupt.
play_episode_interrupted(r) ==
    /\ current # NoTask /\ sigint
    /\ current' = NoTask
    /\ LeaveRun(IF Raised(PlayResult(r)) THEN PlayResult(r) ELSE "KeyboardInterrupt")
    /\ UNCHANGED <<doc, self, cached, resp, calls, librespot, max_concurrent,
                   cycle, semaphore, gather, sent, file, sigint>>

Next ==
    \/ load_client_credentials
    \/ get_access_token
    \/ \E r \in ProbeResponses : is_token_valid(r)
    \/ \E r \in ExchangeResponses, t \in NewTokens : request_new_token(r, t)
    \/ start_librespot
    \/ \E v \in {"false", "true"} : EnvSetEnabled(v)
    \/ \E f \in FileStates : EnvSetFile(f)
    \/ play_randomly
    \/ play_episode_start
    \/ \E r \in PlayResponses : play_episode_response(r)
    \/ \E id \in DOMAIN tasks : SleepExpires(id)
    \/ play_episode_finish
    \/ gather_callback
    \/ play_randomly_resume
    \/ Interrupt
    \/ InterruptDeferred
    \/ \E r \in PlayResponses : play_episode_interrupted(r)

Spec == Init /\ [][Next]_vars

(* ------------------------------- claims ------------------------------- *)

\* Tasks that hold a slot of the semaphore: the PUT is outstanding, the
\* simulated playback is running or has just ended, or a released slot has
\* been handed to the task.
InFlight == {id \in DOMAIN tasks : tasks[id].st \in {"http", "sleeping", "timer", "woken"}}

Count(seq, e) == Cardinality({i \in 1..Len(seq) : seq[i] = e})
SentEpisodes == [i \in 1..Len(sent) |-> sent[i].ep]

\* All tasks of the cycle have completed without an exception and gather has
\* completed: the cycle is at its barrier.
CycleComplete == sched = "gather" /\ gather.done /\ gather.exc = ""

\* get_access_token has read the document.
TokenRead == pc \notin {"load", "get_access_token"} /\ self.client_id # Absent

\* C1: for max_concurrent >= 1, the number of play_episode tasks holding a
\* semaphore slot never exceeds max_concurrent.
C1_BoundedInFlight ==
    max_concurrent >= 1 => Cardinality(InFlight) <= max_concurrent

C1_Witness ==
    /\ max_concurrent = 2
    /\ Cardinality(InFlight) = 2
    /\ \E id \in DOMAIN tasks : tasks[id].st = "waiting"

\* C2: cycles never overlap: every task that is pending belongs to the
\* current cycle, and the loop takes its next step (enabled check, shuffle,
\* dispatch) only once every task of the cycle has completed.
C2_NoCycleOverlap ==
    /\ [](\A id \in DOMAIN tasks : id[1] = cycle)
    /\ [][(cycle' # cycle \/ (sched' = "stopped" /\ ~sigint'))
            => \A id \in DOMAIN tasks : tasks[id].st = "done"]_vars

C2_Witness ==
    /\ cycle = 2
    /\ \E id \in DOMAIN tasks : tasks[id].st = "sleeping"
    /\ \E id \in DOMAIN tasks : tasks[id].st = "waiting"

\* C3: in every cycle no entry of the configured episode list is sent more
\* often than it is configured, and at the barrier of every full cycle each
\* entry has been sent exactly once, whatever the shuffle and the outcomes.
C3_OnePlayPerEpisode ==
    /\ \A e \in EpisodeIds : Count(SentEpisodes, e) <= Count(doc.episode_ids, e)
    /\ CycleComplete =>
         \A e \in EpisodeIds : Count(SentEpisodes, e) = Count(doc.episode_ids, e)

C3_Witness ==
    /\ CycleComplete
    /\ cycle = 2
    /\ Len(sent) = 3
    /\ self.episode_ids # doc.episode_ids

\* C4: a play command answered with a status other than 204 never aborts
\* the cycle or the process.
C4_FailureDoesNotAbort ==
    ~(sched = "crashed" /\ err = "JSONDecodeError")

\* C5: when the document says enabled=false, or has no enabled key, as
\* play_randomly is entered, the scheduler returns at once: no cycle, no
\* shuffle, no play command.
C5_DisabledAtEntry ==
    /\ [][(pc = "run" /\ pc' # "run" /\ file = "ok" /\ doc.enabled \in {Absent, "false"})
            => /\ sched' = "stopped" /\ pc' = "exit"
               /\ cycle' = 0 /\ sent' = <<>> /\ tasks' = <<>>
               /\ self'.episode_ids = self.episode_ids]_vars
    /\ []((sched = "stopped" /\ cycle = 0)
            => sent = <<>> /\ tasks = <<>> /\ self.episode_ids = doc.episode_ids)

C5_Witness ==
    /\ sched = "stopped" /\ pc = "exit" /\ cycle = 0
    /\ doc.enabled = Absent

\* C6: after a probe answered with a status other than 200 there is exactly
\* one exchange call, and once get_access_token has returned, the token it
\* returned is the new one and is the one in the document.
C6_RefreshAfterInvalid ==
    (resp.probe.net /\ resp.probe.status # HTTP_OK) =>
        /\ calls.exchange = 1
        /\ pc \notin {"exchange", "failed"} =>
             /\ calls.write = 1
             /\ self.access_token \in NewTokens
             /\ doc.access_token = self.access_token

C6_Witness ==
    /\ pc = "ready"
    /\ resp.probe.status = 401
    /\ calls.exchange = 1
    /\ self.access_token = "tokB"

\* C7: after a probe answered with 200 there is no exchange call, the token
\* returned is the cached one, and the document has not been written.
C7_ValidTokenKept ==
    (resp.probe.net /\ resp.probe.status = HTTP_OK) =>
        /\ calls.exchange = 0
        /\ calls.write = 0
        /\ self.access_token = cached
        /\ doc.access_token = cached

C7_Witness ==
    /\ pc = "ready"
    /\ resp.probe.status = HTTP_OK
    /\ self.access_token = "tokA"

\* C8: a probe that ends in a network failure is followed by the token
\* exchange, as a non-200 status is; initialization does not fail on it.
C8_NetworkFailureIsInvalid ==
    resp.probe = NetworkFailure =>
        /\ calls.exchange = 1
        /\ ~(pc = "failed" /\ resp.exchange = NoResponse)

\* C9: when the document holds no cached token (absent or empty),
\* get_access_token makes no probe call and exactly one exchange call.
C9_NoTokenNoProbe ==
    (TokenRead /\ cached \in {Absent, ""}) =>
        calls.probe = 0 /\ calls.exchange = 1

C9_Witness ==
    /\ pc = "ready"
    /\ cached = ""
    /\ calls.exchange = 1

C11_MissingFieldFails ==
    (pc # "load" /\ file = "ok" /\ (\/ doc.client_id = Absent \/ doc.client_secret = Absent
                     \/ doc.podcast_id = Absent \/ doc.device_id = Absent
                     \/ doc.episode_ids = <<>>)) =>
        /\ pc = "failed" /\ err = "ValueError"
        /\ calls = [probe |-> 0, exchange |-> 0, write |-> 0]
        /\ resp = [probe |-> NoResponse, exchange |-> NoResponse]
        /\ self.access_token = Absent
        /\ ~librespot /\ sched = "idle"

C11_Witness ==
    /\ pc = "failed" /\ err = "ValueError"
    /\ doc.device_id = Absent
    /\ doc.client_id # Absent /\ doc.client_secret # Absent /\ doc.podcast_id # Absent
    /\ doc.episode_ids # <<>>

C13_BadDocumentStops ==
    file # "ok" => sched \in {"idle", "gather", "stopped"}

\* C14: once initialization has returned, no step of the scheduler or of a
\* task changes the in-memory token or the Authorization header or writes
\* the document, and every play command carries the token that
\* initialization obtained (the cached one if the probe accepted it, the
\* exchanged one otherwise).
C14_TokenFixed ==
    /\ [][pc \notin {"load", "get_access_token", "probe", "exchange"}
            => /\ self'.access_token = self.access_token
               /\ self'.headers = self.headers
               /\ calls'.write = calls.write
               /\ doc'.access_token = doc.access_token]_vars
    /\ [](\A i \in 1..Len(sent) :
            /\ sent[i].token = self.access_token
            /\ sent[i].token = IF calls.write > 0 THEN doc.access_token ELSE cached)

C14_Witness ==
    /\ cycle = 2
    /\ Len(sent) = 2
    /\ sent[2].token = "tokB"
    /\ cached = "tokA"

\* C15: if the enabled flag is false when the scheduler leaves the barrier
\* of a cycle (remote calls having returned, no interrupt, the document
\* readable), the scheduler is Stopped.
C15_KillSwitchStops ==
    [][(/\ sched = "gather" /\ sched' # "gather"
        /\ doc.enabled = "false" /\ file = "ok"
        /\ ~sigint' /\ err' # "ConnectionError")
          => sched' = "stopped"]_vars

\* C16: within a cycle the play commands are sent in the order of the
\* shuffled list: what has been sent is always a prefix of it, also when
\* tasks had to wait for a slot.
C16_SentInShuffledOrder ==
    /\ Len(sent) <= Len(self.episode_ids)
    /\ \A i \in 1..Len(sent) : sent[i].ep = self.episode_ids[i]

C16_Witness ==
    /\ max_concurrent = 1
    /\ Len(sent) = 2
    /\ \E id \in DOMAIN tasks : tasks[id].st = "waiting"
    /\ self.episode_ids # doc.episode_ids

\* Tasks whose play command is outstanding.
HttpOutstanding == {id \in DOMAIN tasks : tasks[id].st = "http"}

\* C17: waiting for the response of a play command is a suspension point:
\* while one task's call is outstanding and a slot is free, the next task
\* of the cycle can run and send its own command.
C17_HttpWaitSuspends ==
    (/\ HttpOutstanding # {} /\ ~sigint
     /\ max_concurrent >= 2 /\ semaphore.value > 0
     /\ ready # <<>> /\ Head(ready).kind = "task"
     /\ tasks[Head(ready).id].st = "new")
        => ENABLED play_episode_start

\* C18: after an interrupt delivered while the scheduler runs, the script
\* is on its way out or has ended Stopped with the shutdown message, never
\* with an unhandled error.
C18_InterruptStopsCleanly ==
    sigint => \/ pc = "asyncio_run"
              \/ pc = "exit" /\ sched = "stopped" /\ printed = StoppedMessage /\ err = ""

\* C19: for max_concurrent >= 1 and remote calls that return, a cycle
\* never ends while one of its tasks is still waiting for a slot.
C19_NoStarvation ==
    [][(/\ max_concurrent >= 1
        /\ sched = "gather" /\ sched' # "gather"
        /\ ~sigint' /\ err' # "ConnectionError")
          => \A id \in DOMAIN tasks : tasks[id].st # "waiting"]_vars

\* C20: the semaphore leaks no slot: while a cycle runs, the free slots and
\* the slots held add up to max_concurrent, and at every barrier all
\* max_concurrent slots are free and nobody waits.
C20_NoSlotLeak ==
    /\ sched = "gather" => semaphore.value + Cardinality(InFlight) = max_concurrent
    /\ CycleComplete => semaphore.value = max_concurrent /\ semaphore.waiters = <<>>

C20_Witness ==
    /\ CycleComplete
    /\ cycle = 2
    /\ max_concurrent = 2
    /\ semaphore.value = 2
    /\ Len(sent) = 3

====
